---------------------------- MODULE Spec2Model ----------------------------
(***************************************************************************)
(* Model of banking-secure: the lock-based BankAccount, the actor-based    *)
(* BankAccountActor and the TransactionSimulator that drives them.         *)
(*                                                                         *)
(* Money is a Decimal in the source.  Here a monetary value is an integer  *)
(* number of thousandths (1.00 is 1000, 0.01 is 10, 0.005 is 5), so that   *)
(* amounts with more than two fractional digits, and the ties as_money     *)
(* rounds to even, exist in the model.                                     *)
(***************************************************************************)
EXTENDS Integers, Sequences, FiniteSets, TLC

(* ------------------------------- bounds -------------------------------- *)

\* Calls the free clients of SpecLock / SpecActor start, all threads together.
MaxOps == 2

\* Cap on the money in the locked accounts plus the amounts in flight.
MoneyCap == 1500000000

\* Inputs of the money functions lie within this many thousandths of 0.00 and
\* of the maximum transaction.
MoneyRange == 60

(* ------------------------- bank/config.py ------------------------------ *)

\* The module attributes bank/config.py defines.
ConfigNames ==
  {"CURRENCY", "CURRENCY_SYMBOLS", "MIN_TRANSACTION", "MAX_TRANSACTION",
   "CRIT_DELAY_SEC", "ACTOR_THREAD_WARN_THRESHOLD"}

\* MIN_TRANSACTION = "0.01"
MIN_TRANSACTION == 10

\* MAX_TRANSACTION = "1000000.00"
MAX_TRANSACTION == 1000000000

(* -------------------------- bank/money.py ------------------------------ *)

\* A normalizer that returns whole cents where thousandths are expected.
as_money_in_cents(value) == (value + 5) \div 10

\* Decimal.quantize(Decimal("0.01"), rounding=ROUND_HALF_EVEN)
as_money(value) ==
  LET q == value \div 10
      r == value % 10
  IN  IF r < 5 THEN 10 * q
      ELSE IF r > 5 THEN 10 * (q + 1)
      ELSE IF q % 2 = 0 THEN 10 * q ELSE 10 * (q + 1)

\* TRUE when validate_amount_positive_in_limits returns, FALSE when it raises
\* InvalidAmount.
InLimits(amount) ==
  /\ ~ (as_money(amount) < as_money(MIN_TRANSACTION))
  /\ ~ (as_money(amount) > as_money(MAX_TRANSACTION))

\* The value validate_amount_positive_in_limits returns.
validate_amount_positive_in_limits(amount) == as_money(amount)

(* ----------------------------- universe -------------------------------- *)

\* The account objects (identities), in the order of the simulator's list.
AccountList == <<"a", "b">>

Accounts == {AccountList[k] : k \in 1..Len(AccountList)}

\* account_number values given at construction (the caller's choice, not
\* checked for uniqueness): distinct numbers, or the same number twice.
AccountNumberings ==
  {[a \in Accounts |-> IF a = AccountList[1] THEN 1 ELSE 2],
   [a \in Accounts |-> 1]}

\* Caller threads of the free clients, and the threads of a simulator run.
Clients == {"u1", "u2"}

MainThread == "main"

Threads == Clients \cup {MainThread}

NoThread == "none"

\* Amounts the free clients pass: -10.00, 0.005, 30.00 and
\* MAX_TRANSACTION + 0.01.
Amounts == {-10000, 5, 30000, MAX_TRANSACTION + 10}

\* Starting balances given at construction: 30.00 and 20.00.
StartBalances ==
  {[a \in Accounts |-> IF a = AccountList[1] THEN 30000 ELSE 20000]}

NoMsg == [id |-> 0, op |-> "none", amount |-> 0]

NoReply == <<"none", 0>>

\* The keys of TransactionSimulator._failed_by_reason.
Reasons == {"insufficient_funds", "invalid_amount", "same_account", "other"}

VARIABLES
  account_number,  \* BankAccount.account_number / BankAccountActor.account_number
  balance,         \* _balance of each account
  lockOwner,       \* BankAccount._lock: the owning thread, or NoThread
  lockCount,       \* BankAccount._lock: the RLock's recursion count
  pc,              \* each thread's position
  op,              \* the public call a thread is in
  acc,             \* its self
  oth,             \* its other (transfer_to)
  amt,             \* its amount argument (after Decimal(amount) / validation)
  tmp,             \* value loaded by the read half of a += / -=
  exc,             \* exception in flight while the with-blocks unwind
  res,             \* how the thread's last call ended
  ret,             \* value returned by the last get_balance
  started,         \* calls the free clients have started
  startBal,        \* balances at construction (history)
  ledger,          \* balances as the completed operations account for (history)
  atLock,          \* balance of self seen when exclusion was obtained (history)
  q,               \* BankAccountActor._q: the mailbox
  wpc,             \* position of each actor's _worker thread
  cur,             \* the message the worker has taken
  out,             \* the reply the worker is about to put
  reply,           \* the reply queue created by each _call, by message id
  running,         \* BankAccountActor._running
  nextId,          \* messages created so far
  mid,             \* id of the message of a thread's _call
  stage,           \* the step of the saga an actor transfer_to is in
  kind,            \* class of the accounts: "lock" or "actor"
  nAcc,            \* len(self.accounts)
  transfer_prob,   \* self.transfer_prob, in hundredths
  simPc,           \* position of run()
  k,               \* _total: index of the account being read
  retried,         \* _total: the get_balance in progress is the retry
  tot,             \* _total: the running sum
  start_total,     \* run: start_total
  drift,           \* run: the total_drift returned
  i,               \* _worker: operations each worker has performed
  mtx,             \* self._mtx: the owning thread, or NoThread
  attempted,       \* self._attempted
  succeeded,       \* self._succeeded
  failed,          \* self._failed
  by_reason,       \* self._failed_by_reason
  latencies,       \* len(self._latencies)
  stats            \* the stats dicts the calls of run() have returned, in order

lockVars == <<lockOwner, lockCount>>
threadVars == <<pc, op, acc, oth, amt, tmp, exc, res, ret>>
histVars == <<startBal, ledger, atLock>>
actorVars == <<q, wpc, cur, out, reply, running, nextId, mid, stage>>
metricVars == <<attempted, succeeded, failed, by_reason, latencies>>
simVars == <<kind, nAcc, transfer_prob, simPc, k, retried, tot, start_total,
             drift, i, mtx, metricVars, stats>>
vars == <<account_number, balance, lockVars, threadVars, started, histVars,
          actorVars, simVars>>

(* ------------------------------ helpers -------------------------------- *)

RECURSIVE SumOver(_, _)
SumOver(S, f) ==
  IF S = {} THEN 0
  ELSE LET x == CHOOSE y \in S : TRUE
       IN  f[x] + SumOver(S \ {x}, f)

Max(x, y) == IF x > y THEN x ELSE y

\* threading.RLock.acquire(): free, or already owned by the caller.
CanAcquire(t, a) == lockOwner[a] \in {NoThread, t}

Acquired(t, a) ==
  /\ lockOwner' = [lockOwner EXCEPT ![a] = t]
  /\ lockCount' = [lockCount EXCEPT ![a] = @ + 1]

\* threading.RLock.release()
Released(t, a) ==
  /\ lockOwner' = [lockOwner EXCEPT ![a] = IF lockCount[a] = 1 THEN NoThread ELSE t]
  /\ lockCount' = [lockCount EXCEPT ![a] = @ - 1]

\* The call of thread t ends with result r.
Finish(t, r) ==
  /\ pc' = [pc EXCEPT ![t] = "done"]
  /\ res' = [res EXCEPT ![t] = r]

Goto(t, label) == pc' = [pc EXCEPT ![t] = label]

(* ----------------------- bank/bank_account.py -------------------------- *)

\* `if amount <= 0: raise ValueError("Amount must be positive")`
AmountRejected(amount) == amount <= 0

\* A withdrawal that never checks the funds.
FundsShortUnchecked(bal, amount) == FALSE

\* A funds check that looks at the balance and not at the amount.
FundsShortIgnoresAmount(bal, amount) == bal < 0

\* `if self._balance < amount: raise InsufficientFunds(...)`
FundsShort(bal, amount) == bal < amount

\* first, second = (self, other) if self.account_number < other.account_number
\*                 else (other, self)
FirstOf(self, other) ==
  IF account_number[self] < account_number[other] THEN self ELSE other

\* A transfer_to that takes the lock of one account only.
SecondOfOneLock(self, other) ==
  IF account_number[self] < account_number[other] THEN self ELSE other

SecondOf(self, other) ==
  IF account_number[self] < account_number[other] THEN other ELSE self

\* deposit: amount = Decimal(amount); if amount <= 0: raise ValueError
DepositCheck(t) ==
  /\ pc[t] = "dep_check"
  /\ IF AmountRejected(amt[t])
       THEN Finish(t, "ValueError")
       ELSE Goto(t, "dep_lock") /\ UNCHANGED res
  /\ UNCHANGED <<account_number, actorVars, simVars, balance, lockVars, op, acc, oth, amt, tmp, exc,
                 ret, started, histVars>>

\* deposit: with self._lock:
DepositLock(t) ==
  /\ pc[t] = "dep_lock"
  /\ CanAcquire(t, acc[t])
  /\ Acquired(t, acc[t])
  /\ Goto(t, "dep_load")
  /\ atLock' = [atLock EXCEPT ![t] = balance[acc[t]]]
  /\ UNCHANGED <<account_number, actorVars, simVars, balance, op, acc, oth, amt, tmp, exc, res, ret,
                 started, startBal, ledger>>

\* deposit: self._balance += amount, the read
DepositLoad(t) ==
  /\ pc[t] = "dep_load"
  /\ tmp' = [tmp EXCEPT ![t] = balance[acc[t]]]
  /\ Goto(t, "dep_store")
  /\ UNCHANGED <<account_number, actorVars, simVars, balance, lockVars, op, acc, oth, amt, exc, res,
                 ret, started, histVars>>

\* deposit: self._balance += amount, the write
DepositStore(t) ==
  /\ pc[t] = "dep_store"
  /\ balance' = [balance EXCEPT ![acc[t]] = tmp[t] + amt[t]]
  /\ ledger' = [ledger EXCEPT ![acc[t]] = @ + amt[t]]
  /\ Goto(t, "dep_unlock")
  /\ UNCHANGED <<account_number, actorVars, simVars, lockVars, op, acc, oth, amt, tmp, exc, res, ret,
                 started, startBal, atLock>>

\* deposit: leaving the with-block
DepositUnlock(t) ==
  /\ pc[t] = "dep_unlock"
  /\ Released(t, acc[t])
  /\ Finish(t, "ok")
  /\ UNCHANGED <<account_number, actorVars, simVars, balance, op, acc, oth, amt, tmp, exc, ret,
                 started, histVars>>

\* withdraw: amount = Decimal(amount); if amount <= 0: raise ValueError
WithdrawCheck(t) ==
  /\ pc[t] = "wd_check"
  /\ IF AmountRejected(amt[t])
       THEN Finish(t, "ValueError")
       ELSE Goto(t, "wd_lock") /\ UNCHANGED res
  /\ UNCHANGED <<account_number, actorVars, simVars, balance, lockVars, op, acc, oth, amt, tmp, exc,
                 ret, started, histVars>>

\* withdraw: with self._lock:
WithdrawLock(t) ==
  /\ pc[t] = "wd_lock"
  /\ CanAcquire(t, acc[t])
  /\ Acquired(t, acc[t])
  /\ Goto(t, "wd_test")
  /\ atLock' = [atLock EXCEPT ![t] = balance[acc[t]]]
  /\ UNCHANGED <<account_number, actorVars, simVars, balance, op, acc, oth, amt, tmp, exc, res, ret,
                 started, startBal, ledger>>

\* A withdraw whose InsufficientFunds exit leaves the lock held.
WithdrawTestKeepsLock(t) ==
  /\ pc[t] = "wd_test"
  /\ IF FundsShort(balance[acc[t]], amt[t])
       THEN /\ exc' = [exc EXCEPT ![t] = "InsufficientFunds@bank_account"]
            /\ Finish(t, "InsufficientFunds@bank_account")
       ELSE /\ Goto(t, "wd_load")
            /\ UNCHANGED <<exc, res>>
  /\ UNCHANGED <<account_number, actorVars, simVars, balance, lockVars, op, acc, oth, amt, tmp,
                 ret, started, histVars>>

\* withdraw: if self._balance < amount: raise InsufficientFunds
WithdrawTest(t) ==
  /\ pc[t] = "wd_test"
  /\ IF FundsShort(balance[acc[t]], amt[t])
       THEN /\ exc' = [exc EXCEPT ![t] = "InsufficientFunds@bank_account"]
            /\ Goto(t, "wd_unlock")
       ELSE /\ Goto(t, "wd_load")
            /\ UNCHANGED exc
  /\ UNCHANGED <<account_number, actorVars, simVars, balance, lockVars, op, acc, oth, amt, tmp, res,
                 ret, started, histVars>>

\* withdraw: self._balance -= amount, the read
WithdrawLoad(t) ==
  /\ pc[t] = "wd_load"
  /\ tmp' = [tmp EXCEPT ![t] = balance[acc[t]]]
  /\ Goto(t, "wd_store")
  /\ UNCHANGED <<account_number, actorVars, simVars, balance, lockVars, op, acc, oth, amt, exc, res,
                 ret, started, histVars>>

\* withdraw: self._balance -= amount, the write
WithdrawStore(t) ==
  /\ pc[t] = "wd_store"
  /\ balance' = [balance EXCEPT ![acc[t]] = tmp[t] - amt[t]]
  /\ ledger' = [ledger EXCEPT ![acc[t]] = @ - amt[t]]
  /\ Goto(t, "wd_unlock")
  /\ UNCHANGED <<account_number, actorVars, simVars, lockVars, op, acc, oth, amt, tmp, exc, res, ret,
                 started, startBal, atLock>>

\* withdraw: leaving the with-block, normally or with the exception in flight
WithdrawUnlock(t) ==
  /\ pc[t] = "wd_unlock"
  /\ Released(t, acc[t])
  /\ Finish(t, exc[t])
  /\ UNCHANGED <<account_number, actorVars, simVars, balance, op, acc, oth, amt, tmp, exc, ret,
                 started, histVars>>

\* get_balance: with self._lock:
BalanceLock(t) ==
  /\ pc[t] = "gb_lock"
  /\ CanAcquire(t, acc[t])
  /\ Acquired(t, acc[t])
  /\ Goto(t, "gb_read")
  /\ atLock' = [atLock EXCEPT ![t] = balance[acc[t]]]
  /\ UNCHANGED <<account_number, actorVars, simVars, balance, op, acc, oth, amt, tmp, exc, res, ret,
                 started, startBal, ledger>>

\* get_balance: return Decimal(self._balance), the read
BalanceRead(t) ==
  /\ pc[t] = "gb_read"
  /\ ret' = [ret EXCEPT ![t] = balance[acc[t]]]
  /\ Goto(t, "gb_unlock")
  /\ UNCHANGED <<account_number, actorVars, simVars, balance, lockVars, op, acc, oth, amt, tmp, exc,
                 res, started, histVars>>

\* get_balance: leaving the with-block
BalanceUnlock(t) ==
  /\ pc[t] = "gb_unlock"
  /\ Released(t, acc[t])
  /\ Finish(t, "ok")
  /\ UNCHANGED <<account_number, actorVars, simVars, balance, op, acc, oth, amt, tmp, exc, ret,
                 started, histVars>>

\* A transfer_to that validates the amount before it compares the accounts.
TransferCheckAmountFirst(t) ==
  /\ pc[t] = "tr_check"
  /\ IF AmountRejected(amt[t])
       THEN Finish(t, "ValueError")
       ELSE IF acc[t] = oth[t]
              THEN Finish(t, "ValueError:same")
              ELSE Goto(t, "tr_lock1") /\ UNCHANGED res
  /\ UNCHANGED <<account_number, actorVars, simVars, balance, lockVars, op, acc, oth, amt, tmp, exc,
                 ret, started, histVars>>

\* transfer_to: if self is other: raise ValueError; amount = Decimal(amount);
\* if amount <= 0: raise ValueError
TransferCheck(t) ==
  /\ pc[t] = "tr_check"
  /\ IF acc[t] = oth[t]
       THEN Finish(t, "ValueError:same")
       ELSE IF AmountRejected(amt[t])
              THEN Finish(t, "ValueError")
              ELSE Goto(t, "tr_lock1") /\ UNCHANGED res
  /\ UNCHANGED <<account_number, actorVars, simVars, balance, lockVars, op, acc, oth, amt, tmp, exc,
                 ret, started, histVars>>

\* transfer_to: with first._lock:
TransferLockFirst(t) ==
  /\ pc[t] = "tr_lock1"
  /\ CanAcquire(t, FirstOf(acc[t], oth[t]))
  /\ Acquired(t, FirstOf(acc[t], oth[t]))
  /\ Goto(t, "tr_lock2")
  /\ UNCHANGED <<account_number, actorVars, simVars, balance, op, acc, oth, amt, tmp, exc, res, ret,
                 started, histVars>>

\* transfer_to: with second._lock:
TransferLockSecond(t) ==
  /\ pc[t] = "tr_lock2"
  /\ CanAcquire(t, SecondOf(acc[t], oth[t]))
  /\ Acquired(t, SecondOf(acc[t], oth[t]))
  /\ Goto(t, "tr_test")
  /\ atLock' = [atLock EXCEPT ![t] = balance[acc[t]]]
  /\ UNCHANGED <<account_number, actorVars, simVars, balance, op, acc, oth, amt, tmp, exc, res, ret,
                 started, startBal, ledger>>

\* transfer_to: if self._balance < amount: raise InsufficientFunds
TransferTest(t) ==
  /\ pc[t] = "tr_test"
  /\ IF FundsShort(balance[acc[t]], amt[t])
       THEN /\ exc' = [exc EXCEPT ![t] = "InsufficientFunds@bank_account"]
            /\ Goto(t, "tr_unlock2")
       ELSE /\ Goto(t, "tr_debit_load")
            /\ UNCHANGED exc
  /\ UNCHANGED <<account_number, actorVars, simVars, balance, lockVars, op, acc, oth, amt, tmp, res,
                 ret, started, histVars>>

\* transfer_to: self._balance -= amount, the read
TransferDebitLoad(t) ==
  /\ pc[t] = "tr_debit_load"
  /\ tmp' = [tmp EXCEPT ![t] = balance[acc[t]]]
  /\ Goto(t, "tr_debit_store")
  /\ UNCHANGED <<account_number, actorVars, simVars, balance, lockVars, op, acc, oth, amt, exc, res,
                 ret, started, histVars>>

\* transfer_to: self._balance -= amount, the write
TransferDebitStore(t) ==
  /\ pc[t] = "tr_debit_store"
  /\ balance' = [balance EXCEPT ![acc[t]] = tmp[t] - amt[t]]
  /\ Goto(t, "tr_credit_load")
  /\ UNCHANGED <<account_number, actorVars, simVars, lockVars, op, acc, oth, amt, tmp, exc, res, ret,
                 started, histVars>>

\* transfer_to: other._balance += amount, the read
TransferCreditLoad(t) ==
  /\ pc[t] = "tr_credit_load"
  /\ tmp' = [tmp EXCEPT ![t] = balance[oth[t]]]
  /\ Goto(t, "tr_credit_store")
  /\ UNCHANGED <<account_number, actorVars, simVars, balance, lockVars, op, acc, oth, amt, exc, res,
                 ret, started, histVars>>

\* transfer_to: other._balance += amount, the write; the transfer is complete
TransferCreditStore(t) ==
  /\ pc[t] = "tr_credit_store"
  /\ balance' = [balance EXCEPT ![oth[t]] = tmp[t] + amt[t]]
  /\ ledger' = [ledger EXCEPT ![acc[t]] = @ - amt[t], ![oth[t]] = @ + amt[t]]
  /\ Goto(t, "tr_unlock2")
  /\ UNCHANGED <<account_number, actorVars, simVars, lockVars, op, acc, oth, amt, tmp, exc, res, ret,
                 started, startBal, atLock>>

\* transfer_to: leaving the inner with-block
TransferUnlockSecond(t) ==
  /\ pc[t] = "tr_unlock2"
  /\ Released(t, SecondOf(acc[t], oth[t]))
  /\ Goto(t, "tr_unlock1")
  /\ UNCHANGED <<account_number, actorVars, simVars, balance, op, acc, oth, amt, tmp, exc, res, ret,
                 started, histVars>>

\* transfer_to: leaving the outer with-block
TransferUnlockFirst(t) ==
  /\ pc[t] = "tr_unlock1"
  /\ Released(t, FirstOf(acc[t], oth[t]))
  /\ Finish(t, exc[t])
  /\ UNCHANGED <<account_number, actorVars, simVars, balance, op, acc, oth, amt, tmp, exc, ret,
                 started, histVars>>

\* One step of a BankAccount method by thread t.
LockStep(t) ==
  \/ DepositCheck(t) \/ DepositLock(t) \/ DepositLoad(t) \/ DepositStore(t)
  \/ DepositUnlock(t)
  \/ WithdrawCheck(t) \/ WithdrawLock(t) \/ WithdrawTest(t) \/ WithdrawLoad(t)
  \/ WithdrawStore(t) \/ WithdrawUnlock(t)
  \/ BalanceLock(t) \/ BalanceRead(t) \/ BalanceUnlock(t)
  \/ TransferCheck(t) \/ TransferLockFirst(t) \/ TransferLockSecond(t)
  \/ TransferTest(t) \/ TransferDebitLoad(t) \/ TransferDebitStore(t)
  \/ TransferCreditLoad(t) \/ TransferCreditStore(t)
  \/ TransferUnlockSecond(t) \/ TransferUnlockFirst(t)

(* ---------------- free clients of the locked accounts ------------------ *)

\* First position of each BankAccount method.
LockEntry(o) ==
  CASE o = "deposit" -> "dep_check"
    [] o = "withdraw" -> "wd_check"
    [] o = "get_balance" -> "gb_lock"
    [] o = "transfer_to" -> "tr_check"

\* Money in the accounts plus the amounts of the deposits in progress.
Exposure ==
  SumOver(Accounts, balance)
  + SumOver({t \in Threads : pc[t] \in {"dep_check", "dep_lock", "dep_load"}},
            [t \in Threads |-> Max(amt[t], 0)])

\* A thread calls a method of a BankAccount; the locals of the call are new.
LockCall(t, o, self, other, amount) ==
  /\ kind = "lock"
  /\ pc[t] \in {"idle", "done"}
  /\ started < MaxOps
  /\ Max(amount, 0) <= MoneyCap - Exposure
  /\ started' = started + 1
  /\ pc' = [pc EXCEPT ![t] = LockEntry(o)]
  /\ op' = [op EXCEPT ![t] = o]
  /\ acc' = [acc EXCEPT ![t] = self]
  /\ oth' = [oth EXCEPT ![t] = other]
  /\ amt' = [amt EXCEPT ![t] = amount]
  /\ exc' = [exc EXCEPT ![t] = "ok"]
  /\ res' = [res EXCEPT ![t] = "none"]
  /\ tmp' = [tmp EXCEPT ![t] = 0]
  /\ ret' = [ret EXCEPT ![t] = 0]
  /\ atLock' = [atLock EXCEPT ![t] = 0]
  /\ UNCHANGED <<account_number, actorVars, simVars, balance, lockVars, startBal, ledger>>

LockClient(t) ==
  \E self \in Accounts :
    \/ \E amount \in Amounts : LockCall(t, "deposit", self, self, amount)
    \/ \E amount \in Amounts : LockCall(t, "withdraw", self, self, amount)
    \/ LockCall(t, "get_balance", self, self, 0)
    \/ \E other \in Accounts, amount \in Amounts :
         LockCall(t, "transfer_to", self, other, amount)

\* No actor exists.
ActorIdle ==
  /\ q = [a \in Accounts |-> <<>>]
  /\ wpc = [a \in Accounts |-> "exited"]
  /\ cur = [a \in Accounts |-> NoMsg]
  /\ out = [a \in Accounts |-> NoReply]
  /\ reply = <<>>
  /\ running = [a \in Accounts |-> FALSE]
  /\ nextId = 0
  /\ mid = [t \in Threads |-> 0]
  /\ stage = [t \in Threads |-> "none"]

\* No simulator exists.
SimIdle ==
  /\ nAcc = Len(AccountList)
  /\ transfer_prob = 0
  /\ simPc = "none"
  /\ k = 0
  /\ retried = FALSE
  /\ tot = 0
  /\ start_total = 0
  /\ drift = 0
  /\ i = [t \in Clients |-> 0]
  /\ mtx = NoThread
  /\ attempted = 0
  /\ succeeded = 0
  /\ failed = 0
  /\ by_reason = [r \in Reasons |-> 0]
  /\ latencies = 0
  /\ stats = <<>>

ThreadInit ==
  /\ pc = [t \in Threads |-> "idle"]
  /\ op = [t \in Threads |-> "none"]
  /\ acc = [t \in Threads |-> AccountList[1]]
  /\ oth = [t \in Threads |-> AccountList[1]]
  /\ amt = [t \in Threads |-> 0]
  /\ tmp = [t \in Threads |-> 0]
  /\ exc = [t \in Threads |-> "ok"]
  /\ res = [t \in Threads |-> "none"]
  /\ ret = [t \in Threads |-> 0]
  /\ atLock = [t \in Threads |-> 0]
  /\ started = 0

\* BankAccount.__init__: self._balance = Decimal(balance); self._lock = RLock()
LockInit ==
  /\ account_number \in AccountNumberings
  /\ balance \in StartBalances
  /\ startBal = balance
  /\ ledger = balance
  /\ lockOwner = [a \in Accounts |-> NoThread]
  /\ lockCount = [a \in Accounts |-> 0]
  /\ kind = "lock"
  /\ ThreadInit
  /\ ActorIdle
  /\ SimIdle

LockNext == \E t \in Clients : LockClient(t) \/ LockStep(t)

SpecLock == LockInit /\ [][LockNext]_vars

(* ------ clients that only transfer and read (tests of section 8) ------- *)

XferClient(t) ==
  \E self \in Accounts :
    \/ LockCall(t, "get_balance", self, self, 0)
    \/ \E other \in Accounts, amount \in Amounts :
         LockCall(t, "transfer_to", self, other, amount)

\* One step of get_balance or transfer_to by thread t.
XferStep(t) ==
  \/ BalanceLock(t) \/ BalanceRead(t) \/ BalanceUnlock(t)
  \/ TransferCheck(t) \/ TransferLockFirst(t) \/ TransferLockSecond(t)
  \/ TransferTest(t) \/ TransferDebitLoad(t) \/ TransferDebitStore(t)
  \/ TransferCreditLoad(t) \/ TransferCreditStore(t)
  \/ TransferUnlockSecond(t) \/ TransferUnlockFirst(t)

XferNext == \E t \in Clients : XferClient(t) \/ XferStep(t)

SpecXfer == LockInit /\ [][XferNext]_vars

\* A thread that can take a step of its call eventually takes one.
FairSpecXfer == SpecXfer /\ \A t \in Clients : WF_vars(XferStep(t))

\* Positions of transfer_to inside `with second._lock:`.
TransferCritical ==
  {"tr_test", "tr_debit_load", "tr_debit_store", "tr_credit_load",
   "tr_credit_store"}

\* Positions of transfer_to from its call to its return.
TransferPositions ==
  TransferCritical \cup {"tr_check", "tr_lock1", "tr_lock2", "tr_unlock2", "tr_unlock1"}

(* C2: in the locked model the debit and the credit of a transfer happen     *)
(* while the caller holds the locks of both accounts; a get_balance never    *)
(* returns a balance that holds a transfer's debit without its credit (what  *)
(* it read is the balance the completed operations account for); and in      *)
(* every state where no transfer is inside its critical section the two      *)
(* balances add up to the initial sum.                                       *)
TransferAtomic ==
  /\ \A t \in Clients :
       pc[t] \in TransferCritical =>
         lockOwner[acc[t]] = t /\ lockOwner[oth[t]] = t
  /\ \A t \in Clients :
       pc[t] = "gb_unlock" => ret[t] = ledger[acc[t]]
  /\ (\A t \in Clients : pc[t] \notin TransferCritical) =>
       SumOver(Accounts, balance) = SumOver(Accounts, startBal)

\* A get_balance waits for an account while a transfer has debited its source
\* and not yet credited its destination.
TransferAtomicWitness ==
  \E t, u \in Clients :
    /\ pc[t] = "tr_credit_load"
    /\ pc[u] = "gb_lock"
    /\ acc[u] \in {acc[t], oth[t]}
    /\ SumOver(Accounts, balance) # SumOver(Accounts, startBal)

\* Two threads each hold one of the two locks and wait for the other.
CircularWait ==
  \E t, u \in Clients :
    /\ t # u
    /\ pc[t] = "tr_lock2" /\ pc[u] = "tr_lock2"
    /\ lockOwner[SecondOf(acc[t], oth[t])] = u
    /\ lockOwner[SecondOf(acc[u], oth[u])] = t

(* C3: in the locked model, with threads transferring in both directions     *)
(* between the same pair of accounts, no state has two threads each holding  *)
(* one of the two locks and waiting for the other, and under fair scheduling *)
(* every transfer_to call eventually returns or raises.                      *)
TransfersNeverDeadlock ==
  /\ [] ~ CircularWait
  /\ \A t \in Clients : (pc[t] \in TransferPositions) ~> (pc[t] = "done")

(* C17: for every pair of distinct accounts, whatever their account numbers, *)
(* a transfer takes the two locks in the same order whichever account is     *)
(* self: a thread that holds the first lock of its transfer holds the lock   *)
(* the transfer in the opposite direction takes first; hence no two threads  *)
(* each hold one lock and wait for the other.                                *)
CanonicalLockOrder ==
  /\ \A t \in Clients :
       pc[t] \in {"tr_lock2"} \cup TransferCritical =>
         /\ FirstOf(acc[t], oth[t]) = FirstOf(oth[t], acc[t])
         /\ lockOwner[FirstOf(oth[t], acc[t])] = t
  /\ ~ CircularWait

(* C18: once a BankAccount call has returned or raised, on any exit path,    *)
(* the calling thread holds no account lock; a lock is owned exactly while   *)
(* a call is inside its with block.                                          *)
LocksReleased ==
  /\ \A t \in Clients :
       pc[t] \in {"idle", "done"} => \A a \in Accounts : lockOwner[a] # t
  /\ \A a \in Accounts :
       /\ lockOwner[a] = NoThread <=> lockCount[a] = 0
       /\ lockOwner[a] # NoThread => pc[lockOwner[a]] \notin {"idle", "done"}

\* A withdraw and a transfer_to have both raised InsufficientFunds and every
\* lock is free.
LocksReleasedWitness ==
  /\ \E t, u \in Clients :
       /\ pc[t] = "done" /\ op[t] = "withdraw"
       /\ res[t] = "InsufficientFunds@bank_account"
       /\ pc[u] = "done" /\ op[u] = "transfer_to"
       /\ res[u] = "InsufficientFunds@bank_account"
  /\ \A a \in Accounts : lockOwner[a] = NoThread /\ lockCount[a] = 0

(* C8: deposit, withdraw and transfer_to (between distinct accounts) called *)
(* with a non-positive amount, an amount below the configured minimum or    *)
(* an amount above the configured maximum fail with InvalidAmount and leave *)
(* every balance unchanged. Stated for the locked model.                     *)
InvalidAmountRejected ==
  \A t \in Clients :
    ( /\ pc[t] = "done"
      /\ op[t] \in {"deposit", "withdraw", "transfer_to"}
      /\ op[t] = "transfer_to" => acc[t] # oth[t]
      /\ ~ InLimits(amt[t]) )
    => /\ res[t] = "InvalidAmount"
       /\ started = 1 => balance = startBal

\* The positions of a BankAccount call before its first lock acquisition.
BeforeLocks == {"idle", "done", "dep_check", "wd_check", "tr_check"}

(* C23: in the locked model a deposit, withdraw or transfer_to called with   *)
(* an invalid amount (non-positive, below the configured minimum or above    *)
(* the configured maximum) never goes past its amount check: it never waits  *)
(* for, acquires or holds an account lock.                                   *)
InvalidAmountTakesNoLock ==
  \A t \in Clients :
    ( /\ op[t] \in {"deposit", "withdraw", "transfer_to"}
      /\ ~ InLimits(amt[t]) )
    => /\ pc[t] \in BeforeLocks
       /\ \A a \in Accounts : lockOwner[a] # t

(* C24: in both account models and in every reachable state, every account  *)
(* balance is a normalized Money value: normalizing it returns it            *)
(* unchanged, so it has exactly two fractional digits.                       *)
BalancesNormalized == \A a \in Accounts : as_money(balance[a]) = balance[a]

(* -------------------- bank/bank_account_actor.py ------------------------ *)

\* The actor a thread's _call goes to: other for the deposit of a transfer_to,
\* self otherwise.
CallTarget(t) ==
  IF op[t] = "transfer_to" /\ stage[t] = "deposit" THEN oth[t] ELSE acc[t]

\* The operation name a thread's _call sends.
CallOp(t) ==
  CASE op[t] = "deposit" -> "deposit"
    [] op[t] = "withdraw" -> "withdraw"
    [] op[t] = "get_balance" -> "balance"
    [] op[t] = "transfer_to" ->
         IF stage[t] = "withdraw" THEN "withdraw" ELSE "deposit"
    [] OTHER -> op[t]

\* _call: reply = Queue(); self._q.put((op, kwargs, reply))
CallPut(t) ==
  /\ pc[t] = "call_put"
  /\ nextId' = nextId + 1
  /\ mid' = [mid EXCEPT ![t] = nextId + 1]
  /\ reply' = Append(reply, <<>>)
  /\ q' = [q EXCEPT ![CallTarget(t)] =
             Append(@, [id |-> nextId + 1, op |-> CallOp(t), amount |-> amt[t]])]
  /\ Goto(t, "call_get")
  /\ UNCHANGED <<account_number, balance, lockVars, simVars, op, acc, oth, amt,
                 tmp, exc, res, ret, started, histVars, wpc, cur, out, running,
                 stage>>

\* How reply.get(timeout=cfg.ACTOR_CALL_TIMEOUT_SEC) and the lines after it end
\* for the reply queue rq: the argument is evaluated first and raises
\* AttributeError when bank/config.py has no such attribute; otherwise a reply
\* is taken, or the wait times out on an empty queue.
CallOutcome(rq) ==
  IF "ACTOR_CALL_TIMEOUT_SEC" \notin ConfigNames THEN <<"AttributeError", 0>>
  ELSE IF rq = <<>> THEN <<"TimeoutError", 0>>
  ELSE IF Head(rq)[1] = "ok" THEN <<"ok", Head(rq)[2]>>
  ELSE <<Head(rq)[2], 0>>

\* _call from `status, payload = reply.get(...)` to its return or raise, and
\* the caller's lines after it: deposit, withdraw and get_balance return or
\* propagate; transfer_to goes on with its saga.
CallGet(t) ==
  /\ pc[t] = "call_get"
  /\ LET o == CallOutcome(reply[mid[t]])
         taken == "ACTOR_CALL_TIMEOUT_SEC" \in ConfigNames /\ reply[mid[t]] # <<>>
     IN
     /\ reply' = IF taken THEN [reply EXCEPT ![mid[t]] = Tail(@)] ELSE reply
     /\ IF op[t] # "transfer_to"
          THEN \* deposit / withdraw / get_balance
               /\ Finish(t, o[1])
               /\ ret' = [ret EXCEPT ![t] =
                            IF op[t] = "get_balance" /\ o[1] = "ok" THEN o[2] ELSE @]
               /\ UNCHANGED <<stage, exc>>
          ELSE IF stage[t] = "withdraw"
          THEN \* self.withdraw(amt), outside the try
               IF o[1] = "ok"
                 THEN /\ stage' = [stage EXCEPT ![t] = "deposit"]
                      /\ Goto(t, "call_put")
                      /\ UNCHANGED <<res, ret, exc>>
                 ELSE /\ Finish(t, o[1])
                      /\ UNCHANGED <<stage, ret, exc>>
          ELSE IF stage[t] = "deposit"
          THEN \* try: other.deposit(amt)
               IF o[1] = "ok"
                 THEN /\ Finish(t, "ok")
                      /\ UNCHANGED <<stage, ret, exc>>
                 ELSE \* except Exception as e: self.deposit(amt)
                      /\ exc' = [exc EXCEPT ![t] = o[1]]
                      /\ stage' = [stage EXCEPT ![t] = "compensate"]
                      /\ Goto(t, "call_put")
                      /\ UNCHANGED <<res, ret>>
          ELSE \* the compensating self.deposit(amt) ended: raise e, unless the
               \* compensation itself raised
               /\ Finish(t, IF o[1] = "ok" THEN exc[t] ELSE o[1])
               /\ UNCHANGED <<stage, ret, exc>>
  /\ UNCHANGED <<account_number, balance, lockVars, simVars, op, acc, oth, amt,
                 tmp, started, histVars, q, wpc, cur, out, running, nextId, mid>>

\* transfer_to: amt = validate_amount_positive_in_limits(amount);
\* if self is other: raise ValueError; then self.withdraw(amt)
ActorTransferCheck(t) ==
  /\ pc[t] = "atr_check"
  /\ IF ~ InLimits(amt[t])
       THEN Finish(t, "InvalidAmount") /\ UNCHANGED <<amt, stage>>
       ELSE IF acc[t] = oth[t]
              THEN Finish(t, "ValueError:same") /\ UNCHANGED <<amt, stage>>
              ELSE /\ amt' = [amt EXCEPT ![t] = validate_amount_positive_in_limits(@)]
                   /\ stage' = [stage EXCEPT ![t] = "withdraw"]
                   /\ Goto(t, "call_put")
                   /\ UNCHANGED res
  /\ UNCHANGED <<account_number, balance, lockVars, simVars, op, acc, oth, tmp,
                 exc, ret, started, histVars, q, wpc, cur, out, reply, running,
                 nextId, mid>>

\* stop: if self._running:
StopTest(t) ==
  /\ pc[t] = "stop_test"
  /\ IF running[acc[t]]
       THEN Goto(t, "stop_set") /\ UNCHANGED res
       ELSE Finish(t, "ok")
  /\ UNCHANGED <<account_number, balance, lockVars, simVars, op, acc, oth, amt,
                 tmp, exc, ret, started, histVars, actorVars>>

\* stop: self._running = False
StopSet(t) ==
  /\ pc[t] = "stop_set"
  /\ running' = [running EXCEPT ![acc[t]] = FALSE]
  /\ Goto(t, "stop_put")
  /\ UNCHANGED <<account_number, balance, lockVars, simVars, op, acc, oth, amt,
                 tmp, exc, res, ret, started, histVars, q, wpc, cur, out, reply,
                 nextId, mid, stage>>

\* stop: self._q.put(None)
StopPut(t) ==
  /\ pc[t] = "stop_put"
  /\ q' = [q EXCEPT ![acc[t]] = Append(@, [id |-> 0, op |-> "None", amount |-> 0])]
  /\ Goto(t, "stop_join")
  /\ UNCHANGED <<account_number, balance, lockVars, simVars, op, acc, oth, amt,
                 tmp, exc, res, ret, started, histVars, wpc, cur, out, reply,
                 running, nextId, mid, stage>>

\* stop: self._t.join(timeout=cfg.ACTOR_CALL_TIMEOUT_SEC); the argument raises
\* AttributeError when bank/config.py has no such attribute, otherwise join
\* returns when the worker has exited or the timeout has passed.
StopJoin(t) ==
  /\ pc[t] = "stop_join"
  /\ Finish(t, IF "ACTOR_CALL_TIMEOUT_SEC" \notin ConfigNames
                 THEN "AttributeError" ELSE "ok")
  /\ UNCHANGED <<account_number, balance, lockVars, simVars, op, acc, oth, amt,
                 tmp, exc, ret, started, histVars, actorVars>>

\* A worker that takes the newest message of its mailbox.
WorkerGetNewest(a) ==
  /\ wpc[a] = "get"
  /\ q[a] # <<>>
  /\ q' = [q EXCEPT ![a] = SubSeq(@, 1, Len(@) - 1)]
  /\ IF q[a][Len(q[a])].op = "None"
       THEN wpc' = [wpc EXCEPT ![a] = "exited"] /\ UNCHANGED cur
       ELSE wpc' = [wpc EXCEPT ![a] = "exec"] /\ cur' = [cur EXCEPT ![a] = q[a][Len(q[a])]]
  /\ UNCHANGED <<account_number, balance, lockVars, simVars, threadVars, started,
                 histVars, out, reply, running, nextId, mid, stage>>

\* A worker whose loop is `while self._running:`: it leaves as soon as stop()
\* has cleared the flag, whatever its mailbox holds.
WorkerGetWhileRunning(a) ==
  /\ wpc[a] = "get"
  /\ IF ~ running[a]
       THEN wpc' = [wpc EXCEPT ![a] = "exited"] /\ UNCHANGED <<q, cur>>
       ELSE /\ q[a] # <<>>
            /\ q' = [q EXCEPT ![a] = Tail(@)]
            /\ IF Head(q[a]).op = "None"
                 THEN wpc' = [wpc EXCEPT ![a] = "exited"] /\ UNCHANGED cur
                 ELSE wpc' = [wpc EXCEPT ![a] = "exec"] /\ cur' = [cur EXCEPT ![a] = Head(q[a])]
  /\ UNCHANGED <<account_number, balance, lockVars, simVars, threadVars, started,
                 histVars, out, reply, running, nextId, mid, stage>>

\* _worker: message = self._q.get(); if message is None: break
WorkerGet(a) ==
  /\ wpc[a] = "get"
  /\ q[a] # <<>>
  /\ q' = [q EXCEPT ![a] = Tail(@)]
  /\ IF Head(q[a]).op = "None"
       THEN wpc' = [wpc EXCEPT ![a] = "exited"] /\ UNCHANGED cur
       ELSE wpc' = [wpc EXCEPT ![a] = "exec"] /\ cur' = [cur EXCEPT ![a] = Head(q[a])]
  /\ UNCHANGED <<account_number, balance, lockVars, simVars, threadVars, started,
                 histVars, out, reply, running, nextId, mid, stage>>

\* The reply the worker's try-block ends with for a message on balance bal.
WorkerResult(m, bal) ==
  CASE m.op = "deposit" ->
         IF ~ InLimits(m.amount) THEN <<"err", "InvalidAmount">> ELSE <<"ok", 0>>
    [] m.op = "withdraw" ->
         IF ~ InLimits(m.amount) THEN <<"err", "InvalidAmount">>
         ELSE IF bal < validate_amount_positive_in_limits(m.amount)
                THEN <<"err", "InsufficientFunds">>
                ELSE <<"ok", 0>>
    [] m.op = "balance" -> <<"ok", as_money(bal)>>
    [] OTHER -> <<"err", "ValueError:unknown">>

\* The balance the worker's try-block leaves for a message on balance bal.
WorkerBalance(m, bal) ==
  IF WorkerResult(m, bal)[1] # "ok" THEN bal
  ELSE CASE m.op = "deposit" ->
              as_money(bal + validate_amount_positive_in_limits(m.amount))
         [] m.op = "withdraw" ->
              as_money(bal - validate_amount_positive_in_limits(m.amount))
         [] OTHER -> bal

\* A worker without `except Exception`: a failing operation ends its thread.
WorkerExecUncaught(a) ==
  /\ wpc[a] = "exec"
  /\ balance' = [balance EXCEPT ![a] = WorkerBalance(cur[a], @)]
  /\ ledger' = [ledger EXCEPT ![a] = WorkerBalance(cur[a], balance[a])]
  /\ out' = [out EXCEPT ![a] = WorkerResult(cur[a], balance[a])]
  /\ wpc' = [wpc EXCEPT ![a] =
               IF WorkerResult(cur[a], balance[a])[1] = "ok" THEN "reply" ELSE "exited"]
  /\ UNCHANGED <<account_number, lockVars, simVars, threadVars, started, startBal,
                 atLock, q, cur, reply, running, nextId, mid, stage>>

\* _worker: the try-block on the message taken, up to its reply_q.put
WorkerExec(a) ==
  /\ wpc[a] = "exec"
  /\ balance' = [balance EXCEPT ![a] = WorkerBalance(cur[a], @)]
  /\ ledger' = [ledger EXCEPT ![a] = WorkerBalance(cur[a], balance[a])]
  /\ out' = [out EXCEPT ![a] = WorkerResult(cur[a], balance[a])]
  /\ wpc' = [wpc EXCEPT ![a] = "reply"]
  /\ UNCHANGED <<account_number, lockVars, simVars, threadVars, started, startBal,
                 atLock, q, cur, reply, running, nextId, mid, stage>>

\* A worker that puts its reply in the try-block and once more in the except
\* clause.
WorkerReplyTwice(a) ==
  /\ wpc[a] = "reply"
  /\ reply' = [reply EXCEPT ![cur[a].id] = Append(Append(@, out[a]), out[a])]
  /\ wpc' = [wpc EXCEPT ![a] = "get"]
  /\ cur' = [cur EXCEPT ![a] = NoMsg]
  /\ out' = [out EXCEPT ![a] = NoReply]
  /\ UNCHANGED <<account_number, balance, lockVars, simVars, threadVars, started,
                 histVars, q, running, nextId, mid, stage>>

\* _worker: reply_q.put(("ok", ...)) or reply_q.put(("err", e)); the next
\* iteration rebinds message, op, args and reply_q
WorkerReply(a) ==
  /\ wpc[a] = "reply"
  /\ reply' = [reply EXCEPT ![cur[a].id] = Append(@, out[a])]
  /\ wpc' = [wpc EXCEPT ![a] = "get"]
  /\ cur' = [cur EXCEPT ![a] = NoMsg]
  /\ out' = [out EXCEPT ![a] = NoReply]
  /\ UNCHANGED <<account_number, balance, lockVars, simVars, threadVars, started,
                 histVars, q, running, nextId, mid, stage>>

\* One step of a BankAccountActor method by the calling thread t.
ActorStep(t) ==
  \/ CallPut(t) \/ CallGet(t) \/ ActorTransferCheck(t)
  \/ StopTest(t) \/ StopSet(t) \/ StopPut(t) \/ StopJoin(t)

\* One step of the worker thread of actor a.
WorkerStep(a) == WorkerGet(a) \/ WorkerExec(a) \/ WorkerReply(a)

(* ----------------- free clients of the actor accounts ------------------ *)

\* First position of each BankAccountActor method.
ActorEntry(o) ==
  CASE o = "deposit" -> "call_put"
    [] o = "withdraw" -> "call_put"
    [] o = "get_balance" -> "call_put"
    [] o = "transfer_to" -> "atr_check"
    [] o = "stop" -> "stop_test"
    [] OTHER -> "call_put"

\* A thread calls a method of a BankAccountActor.
ActorCall(t, o, self, other, amount) ==
  /\ kind = "actor"
  /\ pc[t] \in {"idle", "done"}
  /\ started < MaxOps
  /\ started' = started + 1
  /\ pc' = [pc EXCEPT ![t] = ActorEntry(o)]
  /\ op' = [op EXCEPT ![t] = o]
  /\ acc' = [acc EXCEPT ![t] = self]
  /\ oth' = [oth EXCEPT ![t] = other]
  /\ amt' = [amt EXCEPT ![t] = amount]
  /\ exc' = [exc EXCEPT ![t] = "ok"]
  /\ res' = [res EXCEPT ![t] = "none"]
  /\ stage' = [stage EXCEPT ![t] = "none"]
  /\ UNCHANGED <<account_number, balance, lockVars, simVars, tmp, ret, histVars,
                 q, wpc, cur, out, reply, running, nextId, mid>>

ActorClient(t) ==
  \E self \in Accounts :
    \/ \E amount \in Amounts : ActorCall(t, "deposit", self, self, amount)
    \/ \E amount \in Amounts : ActorCall(t, "withdraw", self, self, amount)
    \/ ActorCall(t, "get_balance", self, self, 0)
    \/ ActorCall(t, "stop", self, self, 0)
    \/ \E other \in Accounts, amount \in Amounts :
         ActorCall(t, "transfer_to", self, other, amount)

\* BankAccountActor.__init__: self._balance = as_money(balance); the mailbox is
\* empty and the worker thread is started.
ActorInit ==
  /\ account_number = [a \in Accounts |-> IF a = AccountList[1] THEN 1 ELSE 2]
  /\ \E b \in StartBalances : balance = [a \in Accounts |-> as_money(b[a])]
  /\ startBal = balance
  /\ ledger = balance
  /\ lockOwner = [a \in Accounts |-> NoThread]
  /\ lockCount = [a \in Accounts |-> 0]
  /\ q = [a \in Accounts |-> <<>>]
  /\ wpc = [a \in Accounts |-> "get"]
  /\ cur = [a \in Accounts |-> NoMsg]
  /\ out = [a \in Accounts |-> NoReply]
  /\ reply = <<>>
  /\ running = [a \in Accounts |-> TRUE]
  /\ nextId = 0
  /\ mid = [t \in Threads |-> 0]
  /\ stage = [t \in Threads |-> "none"]
  /\ kind = "actor"
  /\ ThreadInit
  /\ SimIdle

ActorNext ==
  \/ \E t \in Clients : ActorClient(t) \/ ActorStep(t)
  \/ \E a \in Accounts : WorkerStep(a)

SpecActor == ActorInit /\ [][ActorNext]_vars

(* ------------- clients of the mailbox of a single actor ---------------- *)

\* Operation names sent through _call that the worker does not know.
UnknownOps == {"audit"}

\* Threads call deposit, withdraw, get_balance, stop and _call with an
\* unknown operation name, all on the first actor.
MailboxClient(t) ==
  LET self == AccountList[1] IN
    \/ \E amount \in Amounts : ActorCall(t, "deposit", self, self, amount)
    \/ \E amount \in Amounts : ActorCall(t, "withdraw", self, self, amount)
    \/ ActorCall(t, "get_balance", self, self, 0)
    \/ ActorCall(t, "stop", self, self, 0)
    \/ \E o \in UnknownOps : ActorCall(t, o, self, self, 0)

MailboxNext ==
  \/ \E t \in Clients :
       \/ MailboxClient(t)
       \/ CallPut(t) \/ CallGet(t)
       \/ StopTest(t) \/ StopSet(t) \/ StopPut(t) \/ StopJoin(t)
  \/ \E a \in Accounts : WorkerStep(a)

SpecMailbox == ActorInit /\ [][MailboxNext]_vars

\* The request id waits in the mailbox of actor a.
Waiting(a, id) == \E j \in 1..Len(q[a]) : q[a][j].op # "None" /\ q[a][j].id = id

\* The worker of actor a is executing the request id.
Executing(a, id) == wpc[a] \in {"exec", "reply"} /\ cur[a].id = id

\* A reply was put on the reply channel of the request id.
Answered(id) == reply[id] # <<>>

(* C12: a failure of an operation in the worker is put, tagged, on the       *)
(* request's reply channel and does not end the worker: the worker leaves    *)
(* its loop only after stop() was called, every reply is tagged ok or err    *)
(* and there is at most one per request, and every request ever enqueued is  *)
(* waiting in a mailbox, being executed, or answered, so that a worker       *)
(* waiting on an empty mailbox has answered everything it was sent.          *)
WorkerSurvivesFailure ==
  /\ \A a \in Accounts : wpc[a] = "exited" => ~ running[a]
  /\ \A id \in 1..nextId :
       /\ Len(reply[id]) <= 1
       /\ Answered(id) => reply[id][1][1] \in {"ok", "err"}
       /\ \/ Answered(id)
          \/ \E a \in Accounts : Waiting(a, id) \/ Executing(a, id)

\* A request failed in the worker and was answered with a tagged failure, and
\* a request enqueued after it was answered too, for each kind of failure.
WorkerSurvivesFailureWitness ==
  /\ \E id1, id2 \in 1..nextId :
       /\ id1 < id2
       /\ Answered(id1) /\ reply[id1][1][1] = "err"
       /\ Answered(id2) /\ reply[id2][1][1] = "ok"
  /\ \A a \in Accounts : wpc[a] = "get" /\ q[a] = <<>>

(* C13: an actor executes the messages of its mailbox one at a time in       *)
(* arrival order: the mailbox holds the requests in the order they were      *)
(* enqueued, the request in execution was enqueued before every request      *)
(* still waiting, no waiting request has been executed, and every request    *)
(* enqueued before the one in execution has been executed to completion.     *)
MailboxFifo ==
  \A a \in Accounts :
    /\ \A j, l \in 1..Len(q[a]) :
         (j < l /\ q[a][j].op # "None" /\ q[a][l].op # "None")
           => q[a][j].id < q[a][l].id
    /\ \A id \in 1..nextId :
         /\ Waiting(a, id) => ~ Answered(id)
         /\ (wpc[a] = "exec" /\ cur[a].id = id) => ~ Answered(id)
         /\ (Waiting(a, id) /\ wpc[a] \in {"exec", "reply"}) => cur[a].id < id
         /\ (wpc[a] \in {"exec", "reply"} /\ id < cur[a].id)
              => \/ Answered(id)
                 \/ \E b \in Accounts \ {a} : Waiting(b, id) \/ Executing(b, id)

\* A request waits in the mailbox while an earlier one is being executed.
MailboxFifoWitness ==
  \E a \in Accounts :
    /\ wpc[a] = "exec"
    /\ q[a] # <<>>
    /\ q[a][1].op # "None"
    /\ q[a][1].id > cur[a].id

\* The worker threads are scheduled: a worker that can take a step takes one.
FairSpecMailbox ==
  SpecMailbox /\ \A a \in Accounts : WF_vars(WorkerStep(a))

\* A shutdown sentinel is in the mailbox of actor a.
SentinelQueued(a) == \E j \in 1..Len(q[a]) : q[a][j].op = "None"

\* Every request sent so far has been answered, or waits in a mailbox, or is
\* in execution by a worker other than that of actor a.
NothingLostBy(a) ==
  \A id \in 1..nextId :
    \/ Answered(id)
    \/ \E b \in Accounts : Waiting(b, id)
    \/ \E b \in Accounts \ {a} : Executing(b, id)

(* C22: the worker leaves its loop only by taking a shutdown sentinel from   *)
(* the head of its mailbox, that is after it has taken every message         *)
(* enqueued before the sentinel; when it has left, each of those messages    *)
(* has been executed and answered; and once stop() has enqueued the          *)
(* sentinel, the worker eventually terminates.                               *)
StopDrainsThenExits ==
  /\ [](\A a \in Accounts :
          wpc[a] = "exited" => (cur[a] = NoMsg /\ NothingLostBy(a)))
  /\ [][\A a \in Accounts :
          (wpc[a] # "exited" /\ wpc'[a] = "exited")
            => /\ wpc[a] = "get"
               /\ q[a] # <<>>
               /\ Head(q[a]).op = "None"
               /\ q'[a] = Tail(q[a])
               /\ NothingLostBy(a)]_vars
  /\ \A a \in Accounts : SentinelQueued(a) ~> (wpc[a] = "exited")

\* stop() was called after a deposit was sent; the deposit was applied and
\* answered and the worker has terminated.
StopDrainsThenExitsWitness ==
  \E a \in Accounts :
    /\ wpc[a] = "exited"
    /\ nextId = 1
    /\ Answered(1) /\ reply[1][1][1] = "ok"
    /\ balance[a] > startBal[a]
    /\ \E t \in Clients : op[t] = "stop" /\ pc[t] = "done"

(* C11: every deposit, withdraw or get_balance call on an actor ends: with   *)
(* the reply of the worker (the result, or the failure the worker relayed),  *)
(* or, when no reply has arrived within the deadline, with Timeout.          *)
CallEndsWithReplyOrTimeout ==
  \A t \in Clients :
    (pc[t] = "done" /\ op[t] \in {"deposit", "withdraw", "get_balance"})
    => res[t] \in {"ok", "InvalidAmount", "InsufficientFunds", "TimeoutError"}

\* No message is queued or being executed: the balances are final.
Quiet == \A a \in Accounts : q[a] = <<>> /\ wpc[a] \in {"get", "exited"}

(* C4: once an actor transfer_to whose withdrawal from the source was        *)
(* applied has failed and returned to its caller, and nothing else was       *)
(* applied to the source, the source's balance equals its value before the   *)
(* call.                                                                     *)
SagaRestoresSource ==
  \A t \in Clients :
    ( /\ started = 1
      /\ op[t] = "transfer_to"
      /\ pc[t] = "done"
      /\ res[t] # "ok"
      /\ Quiet )
    => balance[acc[t]] = startBal[acc[t]]

(* C6: withdraw(a) with a valid amount fails with InsufficientFunds exactly  *)
(* when a exceeds the balance the account has when the call is executed,     *)
(* leaving the balance unchanged, and otherwise succeeds with the balance    *)
(* decreased by exactly a. Stated for the actor model, for the only call     *)
(* made on the accounts.                                                     *)
WithdrawChecksFunds ==
  \A t \in Clients :
    ( /\ started = 1
      /\ op[t] = "withdraw"
      /\ pc[t] = "done"
      /\ InLimits(amt[t]) )
    => IF amt[t] > startBal[acc[t]]
         THEN res[t] = "InsufficientFunds" /\ balance[acc[t]] = startBal[acc[t]]
         ELSE res[t] = "ok" /\ balance[acc[t]] = startBal[acc[t]] - amt[t]

(* C7: for every valid amount d and balance b, when deposit(d) has returned  *)
(* it has succeeded and the balance is exactly b + d. Stated for the actor   *)
(* model, for the only call made on the accounts.                            *)
DepositAddsAmount ==
  \A t \in Clients :
    ( /\ started = 1
      /\ op[t] = "deposit"
      /\ pc[t] = "done"
      /\ InLimits(amt[t]) )
    => /\ res[t] = "ok"
       /\ balance[acc[t]] = startBal[acc[t]] + amt[t]

(* C9: with no concurrent operations, a.transfer_to(b, x) for distinct       *)
(* accounts and a valid x not above a's balance returns normally, and        *)
(* afterwards a's balance is x lower and b's balance is x higher. Stated     *)
(* for the actor model.                                                      *)
TransferMovesAmount ==
  \A t \in Clients :
    ( /\ started = 1
      /\ op[t] = "transfer_to"
      /\ pc[t] = "done"
      /\ acc[t] # oth[t]
      /\ InLimits(amt[t])
      /\ amt[t] <= startBal[acc[t]] )
    => /\ res[t] = "ok"
       /\ balance[acc[t]] = startBal[acc[t]] - amt[t]
       /\ balance[oth[t]] = startBal[oth[t]] + amt[t]

(* ------------------ a transfer-only actor workload --------------------- *)

SagaClient(t) ==
  \E self \in Accounts, other \in Accounts, amount \in Amounts :
    ActorCall(t, "transfer_to", self, other, amount)

SagaNext ==
  \/ \E t \in Clients :
       SagaClient(t) \/ ActorTransferCheck(t) \/ CallPut(t) \/ CallGet(t)
  \/ \E a \in Accounts : WorkerStep(a)

SpecSaga == ActorInit /\ [][SagaNext]_vars

\* The worker has executed the request id with success.
Applied(id) ==
  \/ Answered(id) /\ reply[id][1][1] = "ok"
  \/ \E a \in Accounts : wpc[a] = "reply" /\ cur[a].id = id /\ out[a][1] = "ok"

\* transfer_to of thread t is in progress, its withdrawal from the source has
\* been applied, and neither its deposit into the destination nor its
\* compensating deposit has been applied.
InShortfall(t) ==
  /\ op[t] = "transfer_to"
  /\ pc[t] \in {"call_put", "call_get"}
  /\ \/ stage[t] = "withdraw" /\ pc[t] = "call_get" /\ Applied(mid[t])
     \/ stage[t] \in {"deposit", "compensate"} /\ pc[t] = "call_put"
     \/ stage[t] \in {"deposit", "compensate"} /\ pc[t] = "call_get"
          /\ ~ Applied(mid[t])

(* C19: in the actor model under a transfer-only workload, in every state    *)
(* the balances of all accounts plus the amounts of the transfers in         *)
(* progress whose withdrawal has been applied and whose deposit or           *)
(* compensation has not yet been applied add up to the initial total.        *)
SagaConservesTotal ==
  SumOver(Accounts, balance)
    + SumOver({t \in Clients : InShortfall(t)}, amt)
  = SumOver(Accounts, startBal)

\* The ways a _call ends without a reply of the worker: the caller has given
\* up on its request.
GaveUp == {"TimeoutError", "AttributeError"}

(* C26: a deposit or withdraw call on an actor that has failed without a    *)
(* reply (with Timeout: its caller has given up) is not applied to the       *)
(* balance: the worker has not executed its request with success, neither   *)
(* before the failure is raised nor later.                                   *)
AbandonedCallNotApplied ==
  \A t \in Clients :
    ( /\ pc[t] = "done"
      /\ op[t] \in {"deposit", "withdraw"}
      /\ res[t] \in GaveUp )
    => ~ Applied(mid[t])

\* The request id was enqueued in the mailbox of actor a after a shutdown
\* sentinel: it waits behind one, or it waits and the worker has exited.
AfterSentinel(a, id) ==
  /\ Waiting(a, id)
  /\ \/ wpc[a] = "exited"
     \/ \E j, l \in 1..Len(q[a]) :
          j < l /\ q[a][j].op = "None" /\ q[a][l].op # "None" /\ q[a][l].id = id

(* C27: a deposit, withdraw or get_balance call whose request was enqueued   *)
(* after the shutdown sentinel fails with Timeout, and its request has not   *)
(* been executed.                                                            *)
CallAfterStopTimesOut ==
  \A t \in Clients :
    ( /\ pc[t] = "done"
      /\ op[t] \in {"deposit", "withdraw", "get_balance"}
      /\ AfterSentinel(acc[t], mid[t]) )
    => /\ res[t] = "TimeoutError"
       /\ ~ Applied(mid[t])

(* C28: concurrent actor transfers between the same pair of accounts, in     *)
(* either direction, complete through the replies of the workers: a          *)
(* transfer_to of a valid amount between distinct accounts that has ended    *)
(* has ended with the outcome a reply carries (success, or the               *)
(* InsufficientFunds the source relayed), not with a Timeout or any other    *)
(* failure of the wait.                                                      *)
TransfersCompleteThroughReplies ==
  \A t \in Clients :
    ( /\ pc[t] = "done"
      /\ op[t] = "transfer_to"
      /\ acc[t] # oth[t]
      /\ InLimits(amt[t]) )
    => res[t] \in {"ok", "InsufficientFunds"}

\* The worker of actor a puts the reply of the request id it has executed:
\* the first reply on that channel, tagged, with the balance left as the
\* execution made it.
PutsReply(a, id) ==
  /\ wpc[a] = "reply"
  /\ cur[a].id = id
  /\ reply[id] = <<>>
  /\ reply'[id] = <<out[a]>>
  /\ out[a][1] \in {"ok", "err"}
  /\ balance' = balance
  /\ cur'[a] = NoMsg

\* The caller t takes the reply of its own request id.
TakesReply(t, id) ==
  /\ pc[t] = "call_get"
  /\ mid[t] = id
  /\ reply'[id] = Tail(reply[id])
  /\ pc'[t] # "call_get" \/ mid'[t] # id

(* C29: for every request a worker takes from its mailbox exactly one reply  *)
(* is put on that request's reply channel: a channel never holds two         *)
(* replies; a channel changes only when the worker that executed its         *)
(* request puts the one reply, or when the caller that sent the request      *)
(* takes it; the worker goes from every request it executes to that put;     *)
(* and the balance changes only while a request is executed, before its      *)
(* reply is put.                                                             *)
OneReplyPerRequest ==
  /\ [](\A id \in 1..nextId : Len(reply[id]) <= 1)
  /\ [][\A id \in 1..nextId :
          reply'[id] # reply[id]
            => \/ \E a \in Accounts : PutsReply(a, id)
               \/ \E t \in Threads : TakesReply(t, id)]_vars
  /\ [][\A a \in Accounts :
          /\ (wpc[a] = "exec" /\ wpc'[a] # "exec")
               => (wpc'[a] = "reply" /\ cur'[a] = cur[a])
          /\ (wpc[a] = "reply" /\ wpc'[a] # "reply")
               => PutsReply(a, cur[a].id)
          /\ balance'[a] # balance[a]
               => (wpc[a] = "exec" /\ reply[cur[a].id] = <<>>)]_vars

\* The worker has answered a deposit it applied and a request that failed,
\* and waits for the next message.
OneReplyPerRequestWitness ==
  LET a == AccountList[1] IN
    /\ nextId = 2
    /\ \E id1, id2 \in 1..nextId :
         /\ reply[id1] = << <<"ok", 0>> >>
         /\ Len(reply[id2]) = 1 /\ reply[id2][1][1] = "err"
    /\ balance[a] > startBal[a]
    /\ wpc[a] = "get" /\ q[a] = <<>>

(* ------------- either account model under free clients ---------------- *)

\* The accounts are all BankAccount or all BankAccountActor.
ModelsInit == LockInit \/ ActorInit

\* A call starts on the class of account that exists; the steps of a call and
\* of a worker follow from it.
ModelsNext == LockNext \/ ActorNext

SpecModels == ModelsInit /\ [][ModelsNext]_vars

(* C14: in both account models, starting from non-negative balances, the     *)
(* stored balance of an account is negative in no reachable state, and no    *)
(* get_balance reads, returns or is answered with a negative value.          *)
NonNegativeBalances ==
  /\ \A a \in Accounts : balance[a] >= 0
  /\ \A t \in Clients : op[t] = "get_balance" => ret[t] >= 0
  /\ \A a \in Accounts :
       (wpc[a] = "reply" /\ cur[a].op = "balance" /\ out[a][1] = "ok")
         => out[a][2] >= 0

\* A get_balance returned 0.00 for an account that was withdrawn to nothing.
NonNegativeBalancesWitness ==
  \E t \in Clients :
    /\ op[t] = "get_balance"
    /\ pc[t] = "done"
    /\ res[t] = "ok"
    /\ ret[t] = 0
    /\ startBal[acc[t]] > 0

\* Either account model under clients that transfer, in any direction and to
\* the source itself, and read balances.
TransfersNext == XferNext \/ SagaNext

SpecTransfers == ModelsInit /\ [][TransfersNext]_vars

\* Thread t is at the checks of a transfer_to whose source and destination
\* are the same account, with any amount in the locked model and a valid one
\* in the actor model.
AtSameAccountCheck(t) ==
  /\ pc[t] \in {"tr_check", "atr_check"}
  /\ acc[t] = oth[t]
  /\ kind = "lock" \/ InLimits(amt[t])

(* C15: in both account models a.transfer_to(a, x) fails with the            *)
(* same-account failure in the step that makes the check, and that step      *)
(* acquires no lock, enqueues no message and changes no balance; in the      *)
(* locked model this is so whatever x is, valid or not.                      *)
SameAccountRejected ==
  [][ \A t \in Clients :
        (AtSameAccountCheck(t) /\ pc'[t] # pc[t])
          => /\ pc'[t] = "done"
             /\ res'[t] = "ValueError:same"
             /\ UNCHANGED <<balance, lockOwner, lockCount, q, nextId, reply>> ]_vars

\* A locked a.transfer_to(a, x) with a non-positive x has failed as a
\* same-account transfer.
SameAccountRejectedWitness ==
  \E t \in Clients :
    /\ kind = "lock"
    /\ op[t] = "transfer_to"
    /\ acc[t] = oth[t]
    /\ AmountRejected(amt[t])
    /\ pc[t] = "done"
    /\ res[t] = "ValueError:same"

(* ----------------- bank/money.py called on its own --------------------- *)

\* Values handed to as_money, in thousandths: negative, zero, sub-cent,
\* exact halves of a cent, and values around the maximum transaction.
MoneyInputs ==
  (-MoneyRange..MoneyRange)
    \cup {MAX_TRANSACTION + d : d \in -MoneyRange..MoneyRange}

\* The main thread holds a value x and nothing else runs.
MoneyInit ==
  /\ account_number = [a \in Accounts |-> IF a = AccountList[1] THEN 1 ELSE 2]
  /\ balance \in StartBalances
  /\ startBal = balance
  /\ ledger = balance
  /\ lockOwner = [a \in Accounts |-> NoThread]
  /\ lockCount = [a \in Accounts |-> 0]
  /\ kind = "lock"
  /\ pc = [t \in Threads |-> "idle"]
  /\ op = [t \in Threads |-> "none"]
  /\ acc = [t \in Threads |-> AccountList[1]]
  /\ oth = [t \in Threads |-> AccountList[1]]
  /\ \E x \in MoneyInputs : amt = [t \in Threads |-> IF t = MainThread THEN x ELSE 0]
  /\ tmp = [t \in Threads |-> 0]
  /\ exc = [t \in Threads |-> "ok"]
  /\ res = [t \in Threads |-> "none"]
  /\ ret = [t \in Threads |-> 0]
  /\ atLock = [t \in Threads |-> 0]
  /\ started = 0
  /\ ActorIdle
  /\ SimIdle

\* y = as_money(x)
AsMoney ==
  /\ pc[MainThread] = "idle"
  /\ op' = [op EXCEPT ![MainThread] = "as_money"]
  /\ ret' = [ret EXCEPT ![MainThread] = as_money(amt[MainThread])]
  /\ pc' = [pc EXCEPT ![MainThread] = "normalized"]
  /\ UNCHANGED <<account_number, actorVars, simVars, balance, lockVars, acc, oth, amt,
                 tmp, exc, res, started, histVars>>

\* z = as_money(y)
AsMoneyAgain ==
  /\ pc[MainThread] = "normalized"
  /\ tmp' = [tmp EXCEPT ![MainThread] = as_money(ret[MainThread])]
  /\ pc' = [pc EXCEPT ![MainThread] = "done"]
  /\ res' = [res EXCEPT ![MainThread] = "ok"]
  /\ UNCHANGED <<account_number, actorVars, simVars, balance, lockVars, op, acc, oth,
                 amt, exc, ret, started, histVars>>

MoneyNext == AsMoney \/ AsMoneyAgain

SpecMoney == MoneyInit /\ [][MoneyNext]_vars

(* C16: as_money is idempotent, as_money(as_money(x)) = as_money(x), and     *)
(* as_money(x) is x quantized to two fractional digits: a whole number of    *)
(* cents at most half a cent away from x, the even cent when x lies exactly  *)
(* between two.                                                              *)
AsMoneyIdempotent ==
  LET x == amt[MainThread]
      y == ret[MainThread]
      z == tmp[MainThread]
  IN  /\ pc[MainThread] \in {"normalized", "done"} =>
           /\ y % 10 = 0
           /\ y - x <= 5 /\ x - y <= 5
           /\ (y - x = 5 \/ x - y = 5) => (y \div 10) % 2 = 0
      /\ pc[MainThread] = "done" => z = y

\* as_money was applied twice to a value exactly between two cents.
AsMoneyIdempotentWitness ==
  /\ pc[MainThread] = "done"
  /\ op[MainThread] = "as_money"
  /\ amt[MainThread] % 10 = 5
  /\ ret[MainThread] # amt[MainThread]

(* -------------------- bank/transaction_simulator.py -------------------- *)

\* ops_per_user of the simulator under test.
OpsPerUser == 2

\* users: one worker thread per user.
Users == Clients

\* transfer_prob values of the simulators under test, in hundredths.
TransferProbs == {0, 100}

\* Values self._rng.random() returns, in hundredths: a float in [0.0, 1.0).
Randoms == {0, 50, 99}

\* Values _amount() returns: 25.00, out of 0.01 .. 50.00.
SimAmounts == {25000}

\* Starting balances of the simulator's accounts: 30.00 each, or 30.005 each.
SimStartBalances == {[a \in Accounts |-> 30000], [a \in Accounts |-> 30005]}

\* self.accounts
SimAccounts == {AccountList[j] : j \in 1..nAcc}

\* The except clauses of _do_transfer and _do_dw, by the class of the exception
\* raised: InsufficientFunds and InvalidAmount are the classes of bank/errors.py.
Classify(r) ==
  CASE r = "InsufficientFunds" -> "insufficient_funds"
    [] r = "InvalidAmount" -> "invalid_amount"
    [] OTHER -> "other"

\* A simulator whose generic `except Exception` branch forgets the failure.
FailedAfterUncounted(r) ==
  IF r = "ok" \/ Classify(r) = "other" THEN failed ELSE failed + 1

\* `self.failed += 1` of every except clause of _do_transfer and _do_dw, and
\* of the same-account branch of _do_transfer.
FailedAfter(r) == IF r = "ok" THEN failed ELSE failed + 1

\* First position of a method of the simulator's accounts.
Entry(o) == IF kind = "actor" THEN ActorEntry(o) ELSE LockEntry(o)

\* _total: bal = a.get_balance(), the call
TotalCall ==
  /\ simPc \in {"start_total", "end_total"}
  /\ pc[MainThread] = "idle"
  /\ k <= nAcc
  /\ pc' = [pc EXCEPT ![MainThread] = Entry("get_balance")]
  /\ op' = [op EXCEPT ![MainThread] = "get_balance"]
  /\ acc' = [acc EXCEPT ![MainThread] = AccountList[k]]
  /\ oth' = [oth EXCEPT ![MainThread] = AccountList[k]]
  /\ res' = [res EXCEPT ![MainThread] = "none"]
  /\ exc' = [exc EXCEPT ![MainThread] = "ok"]
  /\ UNCHANGED <<account_number, balance, lockVars, actorVars, simVars, amt, tmp,
                 ret, started, histVars>>

\* _total: tot += Decimal(str(bal)); or the except clause: sleep and call
\* get_balance once more, whose exception leaves run()
TotalNext ==
  /\ simPc \in {"start_total", "end_total"}
  /\ pc[MainThread] = "done"
  /\ IF res[MainThread] = "ok"
       THEN /\ tot' = tot + ret[MainThread]
            /\ k' = k + 1
            /\ retried' = FALSE
            /\ Goto(MainThread, "idle")
            /\ UNCHANGED simPc
       ELSE IF ~ retried
              THEN /\ retried' = TRUE
                   /\ Goto(MainThread, "idle")
                   /\ UNCHANGED <<tot, k, simPc>>
              ELSE /\ simPc' = "raised"
                   /\ Goto(MainThread, "idle")
                   /\ UNCHANGED <<tot, k, retried>>
  /\ UNCHANGED <<account_number, balance, lockVars, actorVars, kind, nAcc,
                 transfer_prob, start_total, drift, i, mtx, metricVars, stats, op,
                 acc, oth, amt, tmp, exc, res, ret, started, histVars>>

\* run: start_total = _total(), and the worker threads are started
RunStart ==
  /\ simPc = "start_total"
  /\ pc[MainThread] = "idle"
  /\ k > nAcc
  /\ start_total' = as_money(tot)
  /\ simPc' = "running"
  /\ UNCHANGED <<account_number, balance, lockVars, actorVars, threadVars, started,
                 histVars, kind, nAcc, transfer_prob, k, retried, tot, drift, i,
                 mtx, metricVars, stats>>

\* _pick_two: self._rng.sample(self.accounts, 2) if len(self.accounts) >= 2
\* else (self.accounts[0], self.accounts[0])
PickTwo ==
  IF nAcc >= 2
    THEN {p \in SimAccounts \X SimAccounts : p[1] # p[2]}
    ELSE {<<AccountList[1], AccountList[1]>>}

\* _worker: one iteration, up to the call of the account method (_do_transfer
\* when random() < transfer_prob and there are two accounts, else _do_dw)
SimPick(t) ==
  /\ simPc = "running"
  /\ pc[t] = "idle"
  /\ i[t] < OpsPerUser
  /\ \E r \in Randoms :
       IF r < transfer_prob /\ nAcc >= 2
         THEN \* _do_transfer
              \E p \in PickTwo, amount \in SimAmounts :
                /\ op' = [op EXCEPT ![t] = "transfer_to"]
                /\ acc' = [acc EXCEPT ![t] = p[1]]
                /\ oth' = [oth EXCEPT ![t] = p[2]]
                /\ IF p[1] = p[2]
                     THEN \* if src is dst: counted below, no call
                          /\ pc' = [pc EXCEPT ![t] = "done"]
                          /\ res' = [res EXCEPT ![t] = "same_account"]
                          /\ UNCHANGED amt
                     ELSE /\ pc' = [pc EXCEPT ![t] = Entry("transfer_to")]
                          /\ res' = [res EXCEPT ![t] = "none"]
                          /\ amt' = [amt EXCEPT ![t] = amount]
         ELSE \* _do_dw
              \E a \in SimAccounts, amount \in SimAmounts, coin \in Randoms :
                /\ op' = [op EXCEPT ![t] = IF coin < 50 THEN "deposit" ELSE "withdraw"]
                /\ acc' = [acc EXCEPT ![t] = a]
                /\ oth' = [oth EXCEPT ![t] = a]
                /\ pc' = [pc EXCEPT ![t] =
                            Entry(IF coin < 50 THEN "deposit" ELSE "withdraw")]
                /\ res' = [res EXCEPT ![t] = "none"]
                /\ amt' = [amt EXCEPT ![t] = amount]
  /\ exc' = [exc EXCEPT ![t] = "ok"]
  /\ stage' = [stage EXCEPT ![t] = "none"]
  /\ UNCHANGED <<account_number, balance, lockVars, simVars, tmp, ret, started,
                 histVars, q, wpc, cur, out, reply, running, nextId, mid>>

\* _do_transfer / _do_dw: with self._mtx:
SimLock(t) ==
  /\ simPc = "running"
  /\ pc[t] = "done"
  /\ mtx = NoThread
  /\ mtx' = t
  /\ Goto(t, "sim_rec")
  /\ UNCHANGED <<account_number, balance, lockVars, actorVars, op, acc, oth, amt,
                 tmp, exc, res, ret, started, histVars, kind, nAcc, transfer_prob,
                 simPc, k, retried, tot, start_total, drift, i, metricVars, stats>>

\* _do_transfer / _do_dw: the counters, under self._mtx; the method returns
\* (its locals are gone) and the worker's loop goes on
SimRecord(t) ==
  /\ pc[t] = "sim_rec"
  /\ attempted' = attempted + 1
  /\ latencies' = IF res[t] = "same_account" THEN latencies ELSE latencies + 1
  /\ succeeded' = IF res[t] = "ok" THEN succeeded + 1 ELSE succeeded
  /\ failed' = FailedAfter(res[t])
  /\ by_reason' =
       IF res[t] = "ok" THEN by_reason
       ELSE IF res[t] = "same_account"
              THEN [by_reason EXCEPT !["same_account"] = @ + 1]
              ELSE [by_reason EXCEPT ![Classify(res[t])] = @ + 1]
  /\ mtx' = NoThread
  /\ i' = [i EXCEPT ![t] = @ + 1]
  /\ Goto(t, "idle")
  /\ op' = [op EXCEPT ![t] = "none"]
  /\ acc' = [acc EXCEPT ![t] = AccountList[1]]
  /\ oth' = [oth EXCEPT ![t] = AccountList[1]]
  /\ amt' = [amt EXCEPT ![t] = 0]
  /\ tmp' = [tmp EXCEPT ![t] = 0]
  /\ exc' = [exc EXCEPT ![t] = "ok"]
  /\ res' = [res EXCEPT ![t] = "none"]
  /\ atLock' = [atLock EXCEPT ![t] = 0]
  /\ UNCHANGED <<account_number, balance, lockVars, actorVars, ret, started,
                 startBal, ledger, kind, nAcc, transfer_prob, simPc, k, retried,
                 tot, start_total, drift, stats>>

\* run: for th in threads: th.join()
RunJoin ==
  /\ simPc = "running"
  /\ \A t \in Users : i[t] = OpsPerUser /\ pc[t] = "idle"
  /\ simPc' = "end_total"
  /\ k' = 1
  /\ tot' = 0
  /\ UNCHANGED <<account_number, balance, lockVars, actorVars, threadVars, started,
                 histVars, kind, nAcc, transfer_prob, retried, start_total, drift,
                 i, mtx, metricVars, stats>>

\* run: end_total = _total(); drift = (end_total - start_total).quantize(...);
\* return stats
RunReturn ==
  /\ simPc = "end_total"
  /\ pc[MainThread] = "idle"
  /\ k > nAcc
  /\ drift' = as_money(as_money(tot) - start_total)
  /\ stats' = Append(stats, [attempted |-> attempted,
                             succeeded |-> succeeded,
                             failed |-> failed,
                             by_reason |-> by_reason,
                             samples |-> latencies,
                             total_drift |-> as_money(as_money(tot) - start_total)])
  /\ simPc' = "returned"
  /\ UNCHANGED <<account_number, balance, lockVars, actorVars, threadVars, started,
                 histVars, kind, nAcc, transfer_prob, k, retried, tot, start_total,
                 i, mtx, metricVars>>

\* TransactionSimulator.__init__ over accounts that were just constructed, all
\* BankAccount or all BankAccountActor, and the entry of run().
SimInit ==
  /\ kind \in {"lock", "actor"}
  /\ nAcc \in 1..Len(AccountList)
  /\ transfer_prob \in TransferProbs
  /\ account_number = [a \in Accounts |-> IF a = AccountList[1] THEN 1 ELSE 2]
  /\ \E b \in SimStartBalances :
       balance = [a \in Accounts |-> IF kind = "actor" THEN as_money(b[a]) ELSE b[a]]
  /\ startBal = balance
  /\ ledger = balance
  /\ lockOwner = [a \in Accounts |-> NoThread]
  /\ lockCount = [a \in Accounts |-> 0]
  /\ q = [a \in Accounts |-> <<>>]
  /\ wpc = [a \in Accounts |-> IF kind = "actor" THEN "get" ELSE "exited"]
  /\ cur = [a \in Accounts |-> NoMsg]
  /\ out = [a \in Accounts |-> NoReply]
  /\ reply = <<>>
  /\ running = [a \in Accounts |-> kind = "actor"]
  /\ nextId = 0
  /\ mid = [t \in Threads |-> 0]
  /\ stage = [t \in Threads |-> "none"]
  /\ ThreadInit
  /\ simPc = "start_total"
  /\ k = 1
  /\ retried = FALSE
  /\ tot = 0
  /\ start_total = 0
  /\ drift = 0
  /\ i = [t \in Clients |-> 0]
  /\ mtx = NoThread
  /\ attempted = 0
  /\ succeeded = 0
  /\ failed = 0
  /\ by_reason = [r \in Reasons |-> 0]
  /\ latencies = 0
  /\ stats = <<>>

SimNext ==
  \/ TotalCall \/ TotalNext \/ RunStart \/ RunJoin \/ RunReturn
  \/ \E t \in Users : SimPick(t) \/ SimLock(t) \/ SimRecord(t)
  \/ \E t \in Threads : LockStep(t) \/ CallPut(t) \/ CallGet(t)
  \/ \E a \in Accounts : WorkerStep(a)

SpecSim == SimInit /\ [][SimNext]_vars

(* ------------- run() called again on the same simulator --------------- *)

\* Calls of run() made on one TransactionSimulator.
MaxRuns == 2

\* run() is entered again after it has returned: its locals and its worker
\* threads are new, the fields set by __init__ are as the last run left them.
RunAgain ==
  /\ simPc = "returned"
  /\ Len(stats) < MaxRuns
  /\ simPc' = "start_total"
  /\ k' = 1
  /\ tot' = 0
  /\ retried' = FALSE
  /\ i' = [t \in Clients |-> 0]
  /\ UNCHANGED <<account_number, balance, lockVars, actorVars, threadVars, started,
                 histVars, kind, nAcc, transfer_prob, start_total, drift, mtx,
                 metricVars, stats>>

RunsNext == SimNext \/ RunAgain

SpecRuns == SimInit /\ [][RunsNext]_vars

(* C25: the metrics every call of run() returns, not only the first, cover   *)
(* that run alone: attempted is users x ops_per_user, succeeded + failed is  *)
(* attempted, failed is the sum of the by_reason counts, and there are at    *)
(* most as many latency samples as attempts.                                 *)
MetricsFreshPerRun ==
  \A r \in 1..Len(stats) :
    /\ stats[r].attempted = Cardinality(Users) * OpsPerUser
    /\ stats[r].succeeded + stats[r].failed = stats[r].attempted
    /\ stats[r].failed = SumOver(Reasons, stats[r].by_reason)
    /\ stats[r].samples <= stats[r].attempted

(* C1: a run with transfer_prob = 1.0, over any account set of either model, *)
(* returns, and the total_drift it returns is exactly 0.00.                  *)
ClosedEconomyZeroDrift ==
  (transfer_prob = 100 /\ simPc \in {"returned", "raised"})
    => (simPc = "returned" /\ drift = 0)

CountersConsistent ==
  simPc = "returned" =>
    /\ attempted = Cardinality(Users) * OpsPerUser
    /\ succeeded + failed = attempted
    /\ succeeded <= attempted
    /\ failed = SumOver(Reasons, by_reason)
    /\ \A t \in Users : i[t] = OpsPerUser

\* A run that returned with both successful and failed operations counted.
CountersConsistentWitness ==
  simPc = "returned" /\ failed > 0 /\ succeeded > 0

(* C20: the simulator counts each failed attempt under the by_reason key of  *)
(* its failure kind: lack of funds under insufficient_funds, a failed amount *)
(* validation under invalid_amount, a same-account transfer under            *)
(* same_account, and only other failures under other. Stated at the point    *)
(* where a worker is about to record the outcome of its attempt.             *)
FailuresCountedByKind ==
  \A t \in Users :
    (pc[t] = "sim_rec" /\ res[t] \notin {"ok", "same_account"})
    => LET counted == Classify(res[t])
           kindOf ==
             CASE res[t] \in {"InsufficientFunds", "InsufficientFunds@bank_account"}
                    -> "insufficient_funds"
               [] res[t] = "InvalidAmount" -> "invalid_amount"
               [] res[t] = "ValueError:same" -> "same_account"
               [] OTHER -> "other"
       IN  counted = kindOf

=============================================================================
